---- MODULE Spec2Model ----
(***************************************************************************)
(* Model of the Image/Video Converter API (main.py, utils/convert_image.py,*)
(* utils/convert_video.py): the sliding-window rate limiter, the API-key   *)
(* gate, the /convert-image validation, conversion loop and packaging, and *)
(* the /convert-video handler with its temporary files.                    *)
(*                                                                         *)
(* Handlers are coroutines on one event loop: a handler runs without       *)
(* interruption from one await to the next, so every action below is one   *)
(* such segment of a handler.                                              *)
(***************************************************************************)
EXTENDS Integers, Sequences, FiniteSets, TLC

VARIABLES now, request_counts, admitted, served, req

vars == <<now, request_counts, admitted, served, req>>

(***************************************************************************)
(* Program constants                                                       *)
(***************************************************************************)
API_KEY == "changeme"
RATE_LIMIT_REQUESTS == 20
RATE_LIMIT_WINDOW == 60
MAX_FILE_SIZE == 10 * 1024 * 1024
MAX_TOTAL_SIZE == 50 * 1024 * 1024
MAX_FILES == 20
ALLOWED_TYPES == {"image/jpeg", "image/jpg", "image/png",
                  "image/gif", "image/webp", "image/bmp"}
MAX_SIZE_MB == 10

(***************************************************************************)
(* Bounds of the model                                                     *)
(***************************************************************************)
MaxTime == 60       \* the clock runs from 0 to MaxTime
TickStep == 30      \* the clock advances in steps of TickStep seconds
MaxBatch == 3       \* every mix of file kinds is sent in batches up to this length
MaxInFlight == 2    \* handlers in flight at once in the concurrent specification
MaxOther == 2       \* requests admitted from the second identity where the clock advances

Slots == 1..MaxInFlight
Identities == {"10.0.0.1", "10.0.0.2"}

\* Python's None for an optional value is the empty sequence, a value v is <<v>>.
None == <<>>
Some(v) == <<v>>

(***************************************************************************)
(* Rate limiter: check_rate_limit                                          *)
(***************************************************************************)
\* faulty variant of Keep: nothing is ever pruned
KeepAll(requests, current_time) == requests

\* faulty variant of Keep: a timestamp of age RATE_LIMIT_WINDOW is still kept
KeepStale(requests, current_time) ==
    LET InWindow(t) == current_time - t <= RATE_LIMIT_WINDOW
    IN  SelectSeq(requests, InWindow)

\* the list comprehension of check_rate_limit: the timestamps still in the window
Keep(requests, current_time) ==
    LET InWindow(t) == current_time - t < RATE_LIMIT_WINDOW
    IN  SelectSeq(requests, InWindow)

\* faulty variant of AtLimit: one request too many gets through
AtLimitOffByOne(window) == Len(window) > RATE_LIMIT_REQUESTS

\* the limit test of check_rate_limit on the pruned list
AtLimit(window) == Len(window) >= RATE_LIMIT_REQUESTS

\* faulty variant of Record: the new timestamp replaces the stored window
RecordOverwrites(window, current_time) == <<current_time>>

\* request_counts[client_ip].append(current_time)
Record(window, current_time) == Append(window, current_time)

\* faulty variant of check_rate_limit: a rejected call is recorded too
check_rate_limit_records_all(counts, client_ip, current_time) ==
    LET pruned == Keep(counts[client_ip], current_time)
    IN  [counts |-> [counts EXCEPT ![client_ip] = Record(pruned, current_time)],
         raised |-> AtLimit(pruned)]

\* check_rate_limit(client_ip) at clock current_time on the map counts:
\* the map afterwards and whether HTTPException(429) was raised
check_rate_limit(counts, client_ip, current_time) ==
    LET pruned == Keep(counts[client_ip], current_time)
    IN  IF AtLimit(pruned)
        THEN [counts |-> [counts EXCEPT ![client_ip] = pruned], raised |-> TRUE]
        ELSE [counts |-> [counts EXCEPT ![client_ip] = Record(pruned, current_time)],
              raised |-> FALSE]

(***************************************************************************)
(* check_auth and get_client_ip                                            *)
(***************************************************************************)
\* headers: [xff, real_ip, api_key: "" when the header is absent or empty;
\*           client: None or Some(host)]
\* "ok", "missing" or "invalid"
check_auth(headers) ==
    IF headers.api_key = "" THEN "missing"
    ELSE IF headers.api_key # API_KEY THEN "invalid"
    ELSE "ok"

\* xff is the first comma-separated entry of x-forwarded-for, stripped
get_client_ip(headers) ==
    IF headers.xff # "" THEN [raised |-> FALSE, ip |-> headers.xff]
    ELSE IF headers.real_ip # "" THEN [raised |-> FALSE, ip |-> headers.real_ip]
    ELSE IF headers.client = None
         THEN [raised |-> TRUE, ip |-> ""]     \* None.host: AttributeError
         ELSE [raised |-> FALSE, ip |-> headers.client[1]]

(***************************************************************************)
(* Uploaded files                                                          *)
(***************************************************************************)
\* filename as os.path.splitext sees it: stem and extension ("" = no filename)
NoName == [stem |-> "", ext |-> ""]
Stems == <<"f01", "f02", "f03", "f04", "f05", "f06", "f07", "f08", "f09", "f10",
           "f11", "f12", "f13", "f14", "f15", "f16", "f17", "f18", "f19", "f20",
           "f21", "f22", "f23", "f24">>

\* what an upload is made of: declared content type, byte length, and whether
\* the image library can decode the bytes
KindOk      == [content_type |-> "image/png",  ext |-> ".png", size |-> 1024, img |-> "ok"]
KindCorrupt == [content_type |-> "image/jpeg", ext |-> ".jpg", size |-> 2048, img |-> "corrupt"]
KindEmpty   == [content_type |-> "image/png",  ext |-> ".png", size |-> 0, img |-> "ok"]
KindText    == [content_type |-> "text/plain", ext |-> ".txt", size |-> 1024, img |-> "corrupt"]
KindTooBig  == [content_type |-> "image/gif",  ext |-> ".gif", size |-> MAX_FILE_SIZE + 1, img |-> "ok"]
KindMax     == [content_type |-> "image/bmp",  ext |-> ".bmp", size |-> MAX_FILE_SIZE, img |-> "ok"]
Kinds == {KindOk, KindCorrupt, KindEmpty, KindText, KindTooBig}

UploadFile(i, k) ==
    [filename |-> [stem |-> Stems[i], ext |-> k.ext],
     content_type |-> k.content_type, size |-> k.size, img |-> k.img]
Unnamed(k) ==
    [filename |-> NoName, content_type |-> k.content_type, size |-> k.size, img |-> k.img]

\* the batches sent: every mix of kinds up to MaxBatch files, and long batches
\* of one kind around the count and total-size limits
Mixed == UNION {[1..n -> Kinds] : n \in 1..MaxBatch}
Uniform(n, k) == [i \in 1..n |-> k]
Long == {Uniform(MAX_FILES, KindOk), Uniform(MAX_FILES + 1, KindOk),
         Uniform(MAX_FILES, KindCorrupt),
         [Uniform(MAX_FILES, KindOk) EXCEPT ![2] = KindCorrupt],
         Uniform(5, KindMax), Uniform(6, KindMax)}
Named(b) == [i \in 1..Len(b) |-> UploadFile(i, b[i])]
Batches == {Named(b) : b \in Mixed \cup Long}

\* the (file, files) parameters of /convert-image
Uploads ==
    {[file |-> None, files |-> Some(b)] : b \in Batches}
    \cup {[file |-> None, files |-> None],
          [file |-> None, files |-> Some(<<>>)],
          [file |-> Some(UploadFile(1, KindOk)), files |-> None],
          [file |-> Some(UploadFile(3, KindCorrupt)),
           files |-> Some(Named(<<KindOk, KindOk>>))],
          [file |-> Some(Unnamed(KindOk)), files |-> Some(Named(<<KindOk, KindCorrupt>>))],
          [file |-> None, files |-> Some(<<Unnamed(KindOk), UploadFile(2, KindOk)>>)]}

\* the quality parameter: None, or Some(q)
Qualities == {None, Some(59), Some(60), Some(100), Some(101), Some(0)}

(***************************************************************************)
(* Image codec adapter: convert_image_to_webp                              *)
(***************************************************************************)
NoExc == [text |-> "", file |-> NoName]

\* what convert_image_to_webp(file, quality) returns or raises
convert_image_to_webp(file, quality) ==
    IF ~(60 <= quality /\ quality <= 100)
    THEN [raised |-> TRUE, data |-> None,
          exc |-> [text |-> "La calidad debe estar entre 60 y 100", file |-> NoName]]
    ELSE IF file.size = 0
    THEN [raised |-> TRUE, data |-> None,
          exc |-> [text |-> "El archivo esta vacio", file |-> file.filename]]
    ELSE IF file.size > MAX_SIZE_MB * 1024 * 1024
    THEN [raised |-> TRUE, data |-> None,
          exc |-> [text |-> "excede el tamano maximo", file |-> file.filename]]
    ELSE IF file.img # "ok"
    THEN [raised |-> TRUE, data |-> None,
          exc |-> [text |-> "No se pudo identificar como una imagen valida",
                   file |-> file.filename]]
    ELSE [raised |-> FALSE, exc |-> NoExc,
          data |-> Some([webp_of |-> file.filename, quality |-> quality])]

(***************************************************************************)
(* Responses                                                               *)
(***************************************************************************)
\* an HTTPException detail or a message: a fixed text, the filename and the
\* per-file messages formatted into it, and the exception text formatted into it
NoDetail == [text |-> "", file |-> NoName, errors |-> <<>>, exc |-> NoExc]
Detail(text) == [NoDetail EXCEPT !.text = text]
FileDetail(text, filename) == [NoDetail EXCEPT !.text = text, !.file = filename]

\* body: the entries sent (one for a raw stream, the members of a ZIP);
\* converted, failed: the X-Converted-Files and X-Failed-Files headers
NoResponse == [status |-> 0, media_type |-> "", detail |-> NoDetail,
               body |-> <<>>, converted |-> None, failed |-> None]
HTTPException(status_code, detail) ==
    [NoResponse EXCEPT !.status = status_code, !.media_type = "application/json",
                       !.detail = detail]

GenericImage500 == Detail("Error interno del servidor durante la conversion.")
GenericGlobal500 == Detail("Error interno del servidor")

\* global_exception_handler: the plain-text 500
global_exception_handler(exc) ==
    [NoResponse EXCEPT !.status = 500, !.media_type = "text/plain",
                       !.detail = GenericGlobal500]

NoHeaders == [xff |-> "", real_ip |-> "", client |-> None, api_key |-> ""]
NoUpload == [file |-> None, files |-> None]

(***************************************************************************)
(* State of one request                                                    *)
(***************************************************************************)
\* headers, quality, upload: the request as received
\* ip: the client identity; rl: "admitted" or "rejected" by check_rate_limit
\* pc: "idle" (no request), "validate", "convert" (image loops, about to read
\*     or convert file i), "transcode" (video, awaiting file.read()), "done"
\* calls: the files handed to a codec adapter, in order
\* trace: the stages entered, in order
\* temps: the temporary files of this request's video conversion still on disk
\* exit_code: the transcoder's exit status, None while it has not run
Idle == [pc |-> "idle", endpoint |-> "", headers |-> NoHeaders, quality |-> None,
         upload |-> NoUpload, ip |-> "", rl |-> "", files |-> <<>>, i |-> 0, total_size |-> 0, validated_files |-> <<>>,
         conversion_results |-> <<>>, failed_conversions |-> <<>>,
         calls |-> <<>>, trace |-> <<>>, temps |-> {}, exit_code |-> None,
         fault |-> "", response |-> NoResponse]

Finish(r, response) == [r EXCEPT !.pc = "done", !.response = response]

\* history: the identities that had a request answered 200
NoteServed(s) ==
    served' = IF req'[s].pc = "done" /\ req'[s].response.status = 200
              THEN served \cup {req'[s].ip}
              ELSE served

(***************************************************************************)
(* /convert-image: from the start of the handler to the first await        *)
(***************************************************************************)
\* the quality test of convert_image
QualityOutOfRange(quality) ==
    quality # None /\ (quality[1] < 60 \/ quality[1] > 100)

\* the choice of processed_files; None when neither parameter names a file
processed_files(file, files) ==
    IF file # None /\ file[1].filename # NoName THEN Some(<<file[1]>>)
    ELSE IF files # None /\ Len(files[1]) > 0 /\ files[1][1].filename # NoName
         THEN Some(files[1])
         ELSE None

TooManyFiles(processed) == Len(processed) > MAX_FILES

\* the request after the parameter checks that follow check_auth
ImageParams(r, quality, file, files) ==
    LET r1 == [r EXCEPT !.trace = Append(@, "validation")]
        pf == processed_files(file, files)
    IN  IF QualityOutOfRange(quality)
        THEN Finish(r1, HTTPException(400, Detail("La calidad debe estar entre 60 y 100")))
        ELSE IF pf = None
        THEN Finish(r1, HTTPException(400,
                 Detail("No se han proporcionado archivos para convertir.")))
        ELSE IF TooManyFiles(pf[1])
        THEN Finish([r1 EXCEPT !.files = pf[1]], HTTPException(400,
                 Detail("No se pueden procesar mas de MAX_FILES archivos simultaneamente")))
        ELSE [r1 EXCEPT !.files = pf[1], !.pc = "validate", !.i = 1]

\* faulty variant of AuthThen: the credential is not looked at
AuthSkipped(r, headers, rest) == rest

\* check_auth and what follows it
AuthThen(r, headers, rest) ==
    LET a == check_auth(headers)
    IN  IF a = "missing"
        THEN Finish(r, HTTPException(401, Detail("API Key requerida.")))
        ELSE IF a = "invalid"
        THEN Finish(r, HTTPException(401, Detail("API Key invalida.")))
        ELSE rest

\* faulty variant of ImageStart: the credential is checked before the rate
\* limiter, a request without it takes no slot
ImageStartAuthFirst(s, headers, quality, file, files) ==
    /\ req[s].pc = "idle"
    /\ LET r0  == [Idle EXCEPT !.endpoint = "image", !.headers = headers,
                               !.quality = quality,
                               !.upload = [file |-> file, files |-> files]]
           cip == get_client_ip(headers)
           rl  == check_rate_limit(request_counts, cip.ip, now)
           r1  == [r0 EXCEPT !.ip = cip.ip, !.trace = <<"auth", "rate_limit">>,
                             !.rl = IF rl.raised THEN "rejected" ELSE "admitted"]
       IN  IF cip.raised
           THEN /\ req' = [req EXCEPT ![s] =
                              Finish([r0 EXCEPT !.fault = "AttributeError"],
                                     HTTPException(500, GenericImage500))]
                /\ UNCHANGED <<request_counts, admitted>>
           ELSE IF check_auth(headers) # "ok"
           THEN /\ req' = [req EXCEPT ![s] =
                              Finish([r0 EXCEPT !.ip = cip.ip, !.trace = <<"auth">>],
                                     HTTPException(401, Detail("API Key requerida.")))]
                /\ UNCHANGED <<request_counts, admitted>>
           ELSE /\ request_counts' = rl.counts
                /\ IF rl.raised
                   THEN /\ req' = [req EXCEPT ![s] =
                                      Finish(r1, HTTPException(429,
                                          Detail("Demasiadas solicitudes.")))]
                        /\ UNCHANGED admitted
                   ELSE /\ admitted' = [admitted EXCEPT ![cip.ip] = Append(@, now)]
                        /\ req' = [req EXCEPT ![s] =
                                      ImageParams(r1, quality, file, files)]
    /\ UNCHANGED <<now, served>>

ImageStart(s, headers, quality, file, files) ==
    /\ req[s].pc = "idle"
    /\ LET r0  == [Idle EXCEPT !.endpoint = "image", !.headers = headers,
                               !.quality = quality,
                               !.upload = [file |-> file, files |-> files]]
           cip == get_client_ip(headers)
       IN  IF cip.raised
           THEN \* AttributeError inside the try: the generic 500
                /\ req' = [req EXCEPT ![s] =
                              Finish([r0 EXCEPT !.fault = "AttributeError"],
                                     HTTPException(500, GenericImage500))]
                /\ UNCHANGED <<request_counts, admitted>>
           ELSE LET rl == check_rate_limit(request_counts, cip.ip, now)
                    r1 == [r0 EXCEPT !.ip = cip.ip, !.trace = <<"rate_limit">>,
                                     !.rl = IF rl.raised THEN "rejected" ELSE "admitted"]
                    r2 == [r1 EXCEPT !.trace = Append(@, "auth")]
                IN  /\ request_counts' = rl.counts
                    /\ IF rl.raised
                       THEN /\ req' = [req EXCEPT ![s] =
                                          Finish(r1, HTTPException(429,
                                              Detail("Demasiadas solicitudes.")))]
                            /\ UNCHANGED admitted
                       ELSE /\ admitted' = [admitted EXCEPT ![cip.ip] = Append(@, now)]
                            /\ req' = [req EXCEPT ![s] =
                                   AuthThen(r2, headers,
                                            ImageParams(r2, quality, file, files))]
    /\ UNCHANGED <<now, served>>

(***************************************************************************)
(* /convert-image: the validation loop, one file per step                  *)
(***************************************************************************)
\* faulty variant of FileRejection: the size of a file is not looked at
FileRejectionNoSize(uploaded_file) ==
    IF uploaded_file.size = 0
    THEN HTTPException(400, FileDetail("El archivo esta vacio", uploaded_file.filename))
    ELSE IF uploaded_file.content_type \notin ALLOWED_TYPES
    THEN HTTPException(400, FileDetail("Tipo de archivo no valido", uploaded_file.filename))
    ELSE NoResponse

\* the per-file checks of the validation loop, in the order of the code:
\* the HTTPException raised for uploaded_file, or NoResponse
FileRejection(uploaded_file) ==
    IF uploaded_file.size = 0
    THEN HTTPException(400, FileDetail("El archivo esta vacio", uploaded_file.filename))
    ELSE IF uploaded_file.content_type \notin ALLOWED_TYPES
    THEN HTTPException(400, FileDetail("Tipo de archivo no valido", uploaded_file.filename))
    ELSE IF uploaded_file.size > MAX_FILE_SIZE
    THEN HTTPException(413, FileDetail("El archivo excede el tamano maximo",
                                       uploaded_file.filename))
    ELSE NoResponse

\* the test after the loop
TotalTooLarge(total_size) == total_size > MAX_TOTAL_SIZE

\* read file i and check it; after the last file, check the total and enter
\* the conversion loop. io_fault: uploaded_file.read() raises
ValidateFile(s, io_fault) ==
    /\ req[s].pc = "validate"
    /\ LET r   == req[s]
           f   == r.files[r.i]
           rej == FileRejection(f)
           r1  == [r EXCEPT !.total_size = @ + f.size,
                            !.validated_files = Append(@, f),
                            !.i = @ + 1]
       IN  req' = [req EXCEPT ![s] =
             IF io_fault
             THEN Finish([r EXCEPT !.fault = "OSError"],
                         HTTPException(500, GenericImage500))
             ELSE IF rej # NoResponse THEN Finish(r, rej)
             ELSE IF r.i < Len(r.files) THEN r1
             ELSE IF TotalTooLarge(r1.total_size)
             THEN Finish(r1, HTTPException(413,
                                 Detail("El tamano total excede el limite")))
             ELSE [r1 EXCEPT !.pc = "convert", !.i = 1]]
    /\ UNCHANGED <<now, request_counts, admitted, served>>

(***************************************************************************)
(* /convert-image: the conversion loop and the response                    *)
(***************************************************************************)
ManifestName == [stem |-> "conversion_errors", ext |-> ".txt"]

\* faulty variant of NothingConverted: the empty result is not caught
NothingConvertedIgnored(conversion_results) == FALSE

\* "if not conversion_results"
NothingConverted(conversion_results) == conversion_results = <<>>

\* the members written to the ZIP
ZipMembers(conversion_results, failed_conversions) ==
    conversion_results \o
    (IF failed_conversions # <<>>
     THEN <<[name |-> ManifestName, data |-> None, errors |-> failed_conversions]>>
     ELSE <<>>)

\* what the handler answers once the conversion loop is over
Package(conversion_results, failed_conversions) ==
    IF NothingConverted(conversion_results)
    THEN HTTPException(400,
             [NoDetail EXCEPT !.text = "No se pudo procesar ningun archivo.",
                              !.errors = failed_conversions])
    ELSE IF Len(conversion_results) = 1
    THEN [NoResponse EXCEPT !.status = 200, !.media_type = "image/webp",
                            !.body = <<conversion_results[1]>>,
                            !.converted = Some(1),
                            !.failed = Some(Len(failed_conversions))]
    ELSE [NoResponse EXCEPT !.status = 200, !.media_type = "application/zip",
                            !.body = ZipMembers(conversion_results, failed_conversions),
                            !.converted = Some(Len(conversion_results)),
                            !.failed = Some(Len(failed_conversions))]

\* "quality or 80"
QualityOr80(quality) == IF quality = None \/ quality[1] = 0 THEN 80 ELSE quality[1]

\* faulty variant of AfterFailure: the loop ends at the first failed file
AfterFailureBreaks(i, n) == n + 1

\* where the loop goes after a failed file (continue)
AfterFailure(i, n) == i + 1

\* one iteration of the conversion loop on validated file i
ConvertOne(r) ==
    LET f   == r.validated_files[r.i]
        out == convert_image_to_webp(f, QualityOr80(r.quality))
        r1  == [r EXCEPT !.calls = Append(@, f.filename),
                         !.trace = Append(@, "convert")]
    IN  IF out.raised
        THEN [r1 EXCEPT !.failed_conversions =
                            Append(@, [file |-> f.filename, exc |-> out.exc]),
                        !.i = AfterFailure(r.i, Len(r.validated_files))]
        ELSE [r1 EXCEPT !.conversion_results =
                            Append(@, [name |-> [stem |-> f.filename.stem, ext |-> ".webp"],
                                       data |-> out.data, errors |-> <<>>]),
                        !.i = r.i + 1]

ConvertFile(s) ==
    /\ req[s].pc = "convert"
    /\ LET r1 == ConvertOne(req[s])
       IN  req' = [req EXCEPT ![s] =
             IF r1.i <= Len(r1.validated_files) THEN r1
             ELSE Finish(r1, Package(r1.conversion_results, r1.failed_conversions))]
    /\ NoteServed(s)
    /\ UNCHANGED <<now, request_counts, admitted>>

(***************************************************************************)
(* Video codec adapter: convert_video_to_webm                              *)
(***************************************************************************)
VideoFaultsAtStart == {"", "tempfile_input", "tempfile_output"}
VideoFaultsAtRun == {"", "file_read", "write_input", "launch_ffmpeg", "read_output"}
ExitCodes == {0, 1}

\* the two NamedTemporaryFile(delete=False) calls: the files on disk after
\* them and whether one of them raised
make_temps(fault) ==
    IF fault = "tempfile_input" THEN [raised |-> TRUE, temps |-> {}]
    ELSE IF fault = "tempfile_output" THEN [raised |-> TRUE, temps |-> {"input"}]
    ELSE [raised |-> FALSE, temps |-> {"input", "output"}]

\* the bytes read back from the output file: what the transcoder wrote, and
\* nothing when it failed on the pre-created empty file
OutputBytes(filename, exit_code) ==
    IF exit_code = 0 THEN Some([webm_of |-> filename]) ELSE None

\* from "await file.read()" to the return: read, write, subprocess.run (its
\* return code is not looked at), read the output, unlink both files
transcode(filename, temps, fault, exit_code) ==
    IF fault \in {"file_read", "write_input", "launch_ffmpeg"}
    THEN [raised |-> TRUE, temps |-> temps, ran |-> FALSE, result |-> None]
    ELSE IF fault = "read_output"
    THEN [raised |-> TRUE, temps |-> temps, ran |-> TRUE, result |-> None]
    ELSE [raised |-> FALSE, temps |-> {}, ran |-> TRUE,
          result |-> OutputBytes(filename, exit_code)]

(***************************************************************************)
(* /convert-video                                                          *)
(***************************************************************************)
\* "except Exception as e": the 400 that carries str(e)
VideoError(fault) ==
    HTTPException(400, [NoDetail EXCEPT !.text = "Error al procesar el video: ",
                                        !.exc = [text |-> fault, file |-> NoName]])

VideoName == [stem |-> "clip", ext |-> ".mp4"]
VideoUpload == [file |-> Some([filename |-> VideoName, content_type |-> "video/mp4",
                               size |-> 4096, img |-> "corrupt"]),
                files |-> None]

VideoStart(s, headers, fault) ==
    /\ req[s].pc = "idle"
    /\ LET r0  == [Idle EXCEPT !.endpoint = "video", !.headers = headers,
                               !.upload = VideoUpload]
           cip == get_client_ip(headers)
       IN  IF cip.raised
           THEN \* AttributeError outside the try: global_exception_handler
                /\ req' = [req EXCEPT ![s] =
                              Finish([r0 EXCEPT !.fault = "AttributeError"],
                                     global_exception_handler("AttributeError"))]
                /\ UNCHANGED <<request_counts, admitted>>
           ELSE LET rl == check_rate_limit(request_counts, cip.ip, now)
                    r1 == [r0 EXCEPT !.ip = cip.ip, !.trace = <<"rate_limit">>,
                                     !.rl = IF rl.raised THEN "rejected" ELSE "admitted"]
                    r2 == [r1 EXCEPT !.trace = Append(@, "auth")]
                    mk == make_temps(fault)
                    r3 == [r2 EXCEPT !.trace = Append(@, "convert"),
                                     !.calls = <<VideoName>>,
                                     !.temps = mk.temps]
                IN  /\ request_counts' = rl.counts
                    /\ IF rl.raised
                       THEN /\ req' = [req EXCEPT ![s] =
                                          Finish(r1, HTTPException(429,
                                              Detail("Demasiadas solicitudes.")))]
                            /\ UNCHANGED admitted
                       ELSE /\ admitted' = [admitted EXCEPT ![cip.ip] = Append(@, now)]
                            /\ req' = [req EXCEPT ![s] =
                                   AuthThen(r2, headers,
                                     IF mk.raised
                                     THEN Finish([r3 EXCEPT !.fault = fault],
                                                 VideoError(fault))
                                     ELSE [r3 EXCEPT !.pc = "transcode"])]
    /\ UNCHANGED <<now, served>>

VideoTranscode(s, fault, exit_code) ==
    /\ req[s].pc = "transcode"
    /\ LET r   == req[s]
           out == transcode(VideoName, r.temps, fault, exit_code)
           r1  == [r EXCEPT !.temps = out.temps, !.fault = fault,
                            !.exit_code = IF out.ran THEN Some(exit_code) ELSE None]
       IN  req' = [req EXCEPT ![s] =
             IF out.raised THEN Finish(r1, VideoError(fault))
             ELSE Finish(r1, [NoResponse EXCEPT
                                 !.status = 200, !.media_type = "video/webm",
                                 !.body = <<[name |-> [stem |-> VideoName.stem, ext |-> ".webm"],
                                             data |-> out.result, errors |-> <<>>]>>])]
    /\ NoteServed(s)
    /\ UNCHANGED <<now, request_counts, admitted>>

(***************************************************************************)
(* The response leaves, the clock advances                                 *)
(***************************************************************************)
Respond(s) ==
    /\ req[s].pc = "done"
    /\ req' = [req EXCEPT ![s] = Idle]
    /\ UNCHANGED <<now, request_counts, admitted, served>>

Tick ==
    /\ now + TickStep <= MaxTime
    /\ now' = now + TickStep
    /\ UNCHANGED <<request_counts, admitted, served, req>>

(***************************************************************************)
(* Requests sent                                                           *)
(***************************************************************************)
Hdr(xff, real_ip, client, api_key) ==
    [xff |-> xff, real_ip |-> real_ip, client |-> client, api_key |-> api_key]
Ip1 == "10.0.0.1"
Ip2 == "10.0.0.2"
GoodHeaders == Hdr(Ip1, "", Some("203.0.113.9"), API_KEY)
HeaderSets == {GoodHeaders,
               Hdr(Ip1, "", None, ""),
               Hdr(Ip1, Ip2, None, "wrong"),
               Hdr("", Ip1, Some(Ip2), API_KEY),
               Hdr("", "", Some(Ip1), API_KEY),
               Hdr("", "", None, API_KEY)}
OneOk == [file |-> None, files |-> Some(Named(<<KindOk>>))]
TwoMixed == [file |-> None, files |-> Some(Named(<<KindOk, KindCorrupt>>))]

ImageRequests ==
    {[headers |-> GoodHeaders, quality |-> None, upload |-> u] : u \in Uploads}
    \cup {[headers |-> h, quality |-> None, upload |-> OneOk] : h \in HeaderSets}
    \cup {[headers |-> GoodHeaders, quality |-> q, upload |-> u] :
              q \in Qualities, u \in {OneOk, TwoMixed, [file |-> None, files |-> None]}}

Init ==
    /\ now = 0
    /\ request_counts = [ip \in Identities |-> <<>>]
    /\ admitted = [ip \in Identities |-> <<>>]
    /\ served = {}
    /\ req = [s \in Slots |-> Idle]

\* one request at a time, every kind of upload
Next ==
    \/ \E rq \in ImageRequests :
          ImageStart(1, rq.headers, rq.quality, rq.upload.file, rq.upload.files)
    \/ \E io_fault \in BOOLEAN : ValidateFile(1, io_fault)
    \/ ConvertFile(1)
    \/ \E h \in HeaderSets, fault \in VideoFaultsAtStart : VideoStart(1, h, fault)
    \/ \E fault \in VideoFaultsAtRun, exit_code \in ExitCodes :
          VideoTranscode(1, fault, exit_code)
    \/ Respond(1)

Spec == Init /\ [][Next]_vars

\* the second identity sends MaxOther requests at most
MayCall(h) == get_client_ip(h).ip # Ip2 \/ Len(admitted[Ip2]) < MaxOther

\* requests of both identities that end in their first segment, while the
\* clock advances
RateHeaders == {Hdr(ip, "", None, "") : ip \in Identities}

NextRate ==
    \/ \E h \in RateHeaders :
          MayCall(h) /\ ImageStart(1, h, None, NoUpload.file, NoUpload.files)
    \/ \E h \in RateHeaders : MayCall(h) /\ VideoStart(1, h, "")
    \/ Respond(1)
    \/ Tick

SpecRate == Init /\ [][NextRate]_vars

\* handlers in flight together, of one identity or of two, interleaved at
\* their awaits; the clock advances by a whole window once a window is full
Advance ==
    /\ now + RATE_LIMIT_WINDOW <= MaxTime
    /\ \E ip \in Identities : AtLimit(Keep(request_counts[ip], now))
    /\ now' = now + RATE_LIMIT_WINDOW
    /\ UNCHANGED <<request_counts, admitted, served, req>>

ConcHeaders == {Hdr(ip, "", None, API_KEY) : ip \in Identities}

NextConc ==
    \/ \E s \in Slots, h \in ConcHeaders :
          MayCall(h) /\ ImageStart(s, h, None, OneOk.file, OneOk.files)
    \/ \E s \in Slots : ValidateFile(s, FALSE)
    \/ \E s \in Slots : ConvertFile(s)
    \/ \E s \in Slots, h \in ConcHeaders : MayCall(h) /\ VideoStart(s, h, "")
    \/ \E s \in Slots : VideoTranscode(s, "", 0)
    \/ \E s \in Slots : Respond(s)
    \/ Advance

SpecConc == Init /\ [][NextConc]_vars

(***************************************************************************)
(* Properties                                                              *)
(***************************************************************************)
\* admissions of ip with a timestamp in the trailing window (T - 60, T]
AdmittedIn(ip, T) ==
    Cardinality({i \in 1..Len(admitted[ip]) :
                    T - RATE_LIMIT_WINDOW < admitted[ip][i] /\ admitted[ip][i] <= T})

\* the trailing windows that end at an admission: a window that ends at any
\* other time holds no more admissions than the one ending at the last
\* admission before it
AdmissionsBounded ==
    \A ip \in Identities :
        \A T \in {admitted[ip][i] : i \in 1..Len(admitted[ip])} \cup {now} :
            AdmittedIn(ip, T) <= RATE_LIMIT_REQUESTS

\* a request enters slot s in this step
Enters(s) == req[s].pc = "idle" /\ req'[s].pc # "idle"

\* a call made while RATE_LIMIT_REQUESTS admissions are younger than the window
\* is answered 429
FullWindowRejects ==
    \A s \in Slots :
        (/\ Enters(s)
         /\ req'[s].trace # <<>>
         /\ AdmittedIn(req'[s].ip, now) >= RATE_LIMIT_REQUESTS)
        => (req'[s].response.status = 429 /\ admitted' = admitted)

\* C1: for every identity, whatever the calls and however the clock advances,
\* at most RATE_LIMIT_REQUESTS calls are admitted in any trailing
\* RATE_LIMIT_WINDOW interval, and a call made while RATE_LIMIT_REQUESTS
\* admitted timestamps are younger than the window is rejected with 429.
C1_SlidingWindow == [][AdmissionsBounded' /\ FullWindowRejects]_vars

\* a 429 at time 60 for an identity whose first admissions have expired and
\* which has filled its window again
C1_Witness ==
    /\ req[1].pc = "done" /\ req[1].response.status = 429 /\ req[1].ip = Ip1
    /\ now = 2 * TickStep
    /\ AdmittedIn(Ip1, now) = RATE_LIMIT_REQUESTS
    /\ Len(admitted[Ip1]) > RATE_LIMIT_REQUESTS

\* the timestamps of s younger than the window at the current clock
Young(s) == Keep(s, now)

\* every admission still in the window is stored, in order, and nothing else is
NoLostAdmission ==
    \A ip \in Identities : Young(request_counts[ip]) = Young(admitted[ip])

InFlight(s) == req[s].pc \in {"validate", "convert", "transcode"}

\* C6: with several handlers in flight, of one identity or of several, no
\* admitted timestamp is lost or overwritten by another call and the bound of
\* RATE_LIMIT_REQUESTS admissions per window holds under every interleaving.
C6_Serialized == NoLostAdmission /\ AdmissionsBounded

\* two handlers of one identity in flight at once, the window full
C6_Witness ==
    /\ InFlight(1) /\ InFlight(2)
    /\ req[1].ip = Ip1 /\ req[2].ip = Ip1
    /\ now = RATE_LIMIT_WINDOW
    /\ Len(request_counts[Ip1]) = RATE_LIMIT_REQUESTS
    /\ Len(admitted[Ip1]) > RATE_LIMIT_REQUESTS

Elems(q) == {q[k] : k \in 1..Len(q)}
Image(r) == r.endpoint = "image"
Video(r) == r.endpoint = "video"

\* the image library decodes the file
Decodable(f) == f.img = "ok"
NotDecodable(f) == ~Decodable(f)
FilenamesOf(fs) == [k \in 1..Len(fs) |-> fs[k].filename]

\* the request has entered the conversion loop
InLoop(r) == Image(r) /\ (r.pc = "convert" \/ (r.pc = "done" /\ "convert" \in Elems(r.trace)))

\* the validated files the loop is through with: all of them once the
\* request is answered, those before file i while it runs
Attempted(r) ==
    IF r.pc = "done" THEN r.validated_files
    ELSE SubSeq(r.validated_files, 1, r.i - 1)

\* C2: every validated file is handed to the image adapter exactly once, in
\* input order, and gives exactly one outcome: a failure does not keep the
\* files after it from being attempted, converted + failed is the number of
\* validated files, and the successes are in input order; each failure
\* message names its file.
C2_EveryFileConverted ==
    \A s \in Slots :
        LET r == req[s] IN
        InLoop(r) =>
            /\ r.calls = FilenamesOf(Attempted(r))
            /\ Len(r.conversion_results) + Len(r.failed_conversions) = Len(Attempted(r))
            /\ [k \in 1..Len(r.conversion_results) |-> r.conversion_results[k].name.stem]
                 = [k \in 1..Len(SelectSeq(Attempted(r), Decodable)) |->
                        SelectSeq(Attempted(r), Decodable)[k].filename.stem]
            /\ [k \in 1..Len(r.failed_conversions) |-> r.failed_conversions[k].file]
                 = FilenamesOf(SelectSeq(Attempted(r), NotDecodable))

\* three files, the second fails, the third is converted after it
C2_Witness ==
    LET r == req[1] IN
    /\ Image(r) /\ r.pc = "done" /\ Len(r.validated_files) = 3
    /\ Len(r.calls) = 3
    /\ Len(r.failed_conversions) = 1
    /\ r.failed_conversions[1].file = r.validated_files[2].filename
    /\ Len(r.conversion_results) = 2
    /\ r.conversion_results[2].name.stem = r.validated_files[3].filename.stem

\* C3: a batch with at least one failure and at least one success is answered
\* with a ZIP holding exactly the successful outputs and one manifest entry
\* listing the failures, also when exactly one file succeeds.
C3_MixedBatchIsArchive ==
    \A s \in Slots :
        LET r == req[s] IN
        (/\ Image(r) /\ r.pc = "done"
         /\ r.conversion_results # <<>> /\ r.failed_conversions # <<>>)
        => /\ r.response.status = 200
           /\ r.response.media_type = "application/zip"
           /\ r.response.body =
                 r.conversion_results \o
                 <<[name |-> ManifestName, data |-> None,
                    errors |-> r.failed_conversions]>>

\* C4: a batch that passes validation and whose files all fail conversion is
\* answered 400 with the failure messages of all its files; never with a 200.
C4_AllFailedIs400 ==
    \A s \in Slots :
        LET r == req[s] IN
        (/\ InLoop(r) /\ r.pc = "done"
         /\ \A k \in 1..Len(r.validated_files) : NotDecodable(r.validated_files[k]))
        => /\ r.response.status = 400
           /\ r.response.body = <<>>
           /\ r.response.media_type \notin {"image/webp", "application/zip"}
           /\ Len(r.response.detail.errors) = Len(r.validated_files)
           /\ [k \in 1..Len(r.response.detail.errors) |-> r.response.detail.errors[k].file]
                = FilenamesOf(r.validated_files)

\* three validated files, none decodable, answered 400
C4_Witness ==
    LET r == req[1] IN
    /\ InLoop(r) /\ r.pc = "done" /\ Len(r.validated_files) = 3
    /\ \A k \in 1..3 : NotDecodable(r.validated_files[k])
    /\ r.response.status = 400
    /\ Len(r.response.detail.errors) = 3

\* the files a request submits: those the handler takes from file and files
Submitted(r) ==
    LET pf == processed_files(r.upload.file, r.upload.files)
    IN  IF pf = None THEN <<>> ELSE pf[1]

\* the rules of the request validator
CountOk(fs) == 1 <= Len(fs) /\ Len(fs) <= MAX_FILES
QualityOk(q) == q = None \/ (60 <= q[1] /\ q[1] <= 100)
NonEmpty(f) == f.size > 0
TypeOk(f) == f.content_type \in ALLOWED_TYPES
SizeOk(f) == f.size <= MAX_FILE_SIZE
FileOk(f) == NonEmpty(f) /\ TypeOk(f) /\ SizeOk(f)
SumOfSizes(fs) ==
    LET RECURSIVE Go(_)
        Go(i) == IF i > Len(fs) THEN 0 ELSE fs[i].size + Go(i + 1)
    IN  Go(1)
TotalOk(fs) == SumOfSizes(fs) <= MAX_TOTAL_SIZE
AllRulesPass(fs, q) ==
    /\ CountOk(fs) /\ QualityOk(q)
    /\ \A k \in 1..Len(fs) : FileOk(fs[k])
    /\ TotalOk(fs)

CredentialMatches(r) == r.headers.api_key = API_KEY

\* the stages a request has entered are a prefix of: rate limit,
\* authorization, validation (image only), then conversions
StagesInOrder(r) ==
    LET gates == IF Image(r) THEN <<"rate_limit", "auth", "validation">>
                 ELSE <<"rate_limit", "auth">>
    IN  \E k \in 0..Len(gates), n \in 0..Len(r.trace) :
            /\ r.trace = SubSeq(gates, 1, k) \o [j \in 1..n |-> "convert"]
            /\ (n > 0 => k = Len(gates))

\* C5: the stages run in the order rate limit, authorization, validation,
\* conversion; no codec adapter is called unless the rate limiter admitted the
\* request, the credential matched and (for images) every rule passed for
\* the whole file set; a rate-limited request is answered 429 whatever its
\* credential and payload.
C5_GatesBeforeConversion ==
    \A s \in Slots :
        LET r == req[s] IN
        /\ StagesInOrder(r)
        /\ r.calls # <<>> =>
              /\ r.rl = "admitted"
              /\ CredentialMatches(r)
              /\ Image(r) => AllRulesPass(Submitted(r), r.quality)
        /\ r.rl = "rejected" =>
              /\ r.pc = "done" /\ r.response.status = 429
              /\ r.calls = <<>> /\ r.trace = <<"rate_limit">>

\* a request with the right key and three valid files, rejected by the rate
\* limiter
C5_Witness ==
    LET r == req[1] IN
    /\ Image(r) /\ r.rl = "rejected" /\ r.response.status = 429
    /\ CredentialMatches(r)
    /\ Len(Submitted(r)) = 3
    /\ AllRulesPass(Submitted(r), r.quality)

\* an admitted, authorized image request that met no fault and is through
\* validation
Settled(r) ==
    /\ Image(r) /\ r.pc \in {"convert", "done"}
    /\ r.rl = "admitted" /\ CredentialMatches(r) /\ r.fault = ""

FirstBad(fs) ==
    CHOOSE k \in 1..Len(fs) : ~FileOk(fs[k]) /\ \A j \in 1..(k - 1) : FileOk(fs[j])

\* the rejection names a rule the request violates
RejectedForAViolatedRule(r) ==
    LET fs == Submitted(r)
        d  == r.response.detail
        st == r.response.status
    IN  \/ /\ d.text = "La calidad debe estar entre 60 y 100"
           /\ st = 400 /\ ~QualityOk(r.quality)
        \/ /\ d.text = "No se han proporcionado archivos para convertir."
           /\ st = 400 /\ Len(fs) = 0
        \/ /\ d.text = "No se pueden procesar mas de MAX_FILES archivos simultaneamente"
           /\ st = 400 /\ Len(fs) > MAX_FILES
        \/ /\ \E k \in 1..Len(fs) : ~FileOk(fs[k])
           /\ d.file = fs[FirstBad(fs)].filename
           /\ \/ d.text = "El archivo esta vacio" /\ st = 400 /\ ~NonEmpty(fs[FirstBad(fs)])
              \/ d.text = "Tipo de archivo no valido" /\ st = 400 /\ ~TypeOk(fs[FirstBad(fs)])
              \/ /\ d.text = "El archivo excede el tamano maximo"
                 /\ st = 413 /\ ~SizeOk(fs[FirstBad(fs)])
        \/ /\ d.text = "El tamano total excede el limite"
           /\ st = 413
           /\ \A k \in 1..Len(fs) : FileOk(fs[k])
           /\ ~TotalOk(fs)

\* C7: an admitted, authorized /convert-image request reaches the conversion
\* loop exactly when the file count is in 1..MAX_FILES, the quality (if given)
\* is in 60..100, every file is non-empty, of an allowed type and at most
\* MAX_FILE_SIZE, and the sizes sum to at most MAX_TOTAL_SIZE; otherwise it is
\* rejected for a rule it violates, a per-file rejection naming the first file
\* that breaks a per-file rule and the total-size rejection coming only when
\* every file passed its own checks.
C7_ValidationDecides ==
    \A s \in Slots :
        LET r == req[s] IN
        Settled(r) =>
            /\ InLoop(r) <=> AllRulesPass(Submitted(r), r.quality)
            /\ ~InLoop(r) => RejectedForAViolatedRule(r)

\* three files, the first two pass, the third is too large and is the one named
C7_Witness ==
    LET r == req[1] IN
    /\ Settled(r) /\ r.pc = "done" /\ ~InLoop(r)
    /\ Len(Submitted(r)) = 3
    /\ FileOk(Submitted(r)[1]) /\ FileOk(Submitted(r)[2])
    /\ r.response.status = 413
    /\ r.response.detail.file = Submitted(r)[3].filename

\* C8: when convert_video_to_webm has returned or raised, on every path, both
\* temporary files it created are deleted.
C8_TempsDeleted ==
    \A s \in Slots : (Video(req[s]) /\ req[s].pc = "done") => req[s].temps = {}

\* C9: a transcoder that exits non-zero, or an output that cannot be read,
\* gives a 400; never a 200 video/webm.
C9_FailedTranscodeIs400 ==
    \A s \in Slots :
        LET r == req[s] IN
        (/\ Video(r) /\ r.pc = "done"
         /\ (r.fault = "read_output" \/ (r.exit_code # None /\ r.exit_code # Some(0))))
        => r.response.status = 400 /\ r.response.media_type # "video/webm"

\* C10: an exception that is not a classified error gives a 500 with a fixed
\* generic message, and its text is not in the response.
C10_Generic500 ==
    \A s \in Slots :
        LET r == req[s] IN
        (r.pc = "done" /\ r.fault # "")
        => /\ r.response.status = 500
           /\ r.response.detail \in {GenericImage500, GenericGlobal500}
           /\ r.response.detail.exc = NoExc

\* slot s takes a request that reaches check_rate_limit in this step
Checked(s) == Enters(s) /\ req'[s].trace # <<>>

StoredInWindow(ip) ==
    \A i \in 1..Len(request_counts[ip]) :
        now - request_counts[ip][i] < RATE_LIMIT_WINDOW

\* C11: in every reachable state, also while the clock advances between two
\* requests of an identity, every stored timestamp is younger than the window.
C11_AlwaysInWindow == \A ip \in Identities : StoredInWindow(ip)

\* C11 as it holds: right after a check_rate_limit call of an identity, at the
\* clock of that call, every timestamp stored for that identity is younger
\* than the window; between calls expired timestamps stay stored until the
\* identity's next call.
C11_InWindowAfterCheck ==
    [][\A s \in Slots :
          Checked(s) =>
              \A i \in 1..Len(request_counts'[req'[s].ip]) :
                  now - request_counts'[req'[s].ip][i] < RATE_LIMIT_WINDOW]_vars

\* a call at time 60 of an identity admitted at time 0 has just pruned its window
C11_Witness ==
    /\ req[1].pc = "done" /\ req[1].ip = Ip1 /\ req[1].trace # <<>>
    /\ now = 2 * TickStep
    /\ admitted[Ip1][1] = 0
    /\ Len(admitted[Ip1]) > Len(request_counts[Ip1])
    /\ StoredInWindow(Ip1)

\* the timestamps stored for ip that are younger than the window now
YoungerStored(ip) ==
    LET Younger(t) == now - t < RATE_LIMIT_WINDOW
    IN  SelectSeq(request_counts[ip], Younger)

\* C12: a rejected call records nothing: the identity's window afterwards is
\* exactly the timestamps that were younger than the window before the call;
\* an admitted call appends exactly one timestamp, the current time, at the
\* end; either way the windows of all other identities are unchanged.
C12_CallFrame ==
    [][\A s \in Slots :
          Checked(s) =>
              LET ip == req'[s].ip IN
              /\ req'[s].rl = "rejected" => request_counts'[ip] = YoungerStored(ip)
              /\ req'[s].rl = "admitted" =>
                     request_counts'[ip] = Append(YoungerStored(ip), now)
              /\ req'[s].rl \in {"rejected", "admitted"}
              /\ req'[s].rl = "rejected" <=> req'[s].response.status = 429
              /\ \A other \in Identities \ {ip} :
                     request_counts'[other] = request_counts[other]]_vars

\* a call of the first identity rejected at time 30 on a full window, the
\* second identity holding timestamps of its own
C12_Witness ==
    /\ req[1].pc = "done" /\ req[1].rl = "rejected" /\ req[1].ip = Ip1
    /\ now = TickStep
    /\ Len(request_counts[Ip1]) = RATE_LIMIT_REQUESTS
    /\ request_counts[Ip1][1] = 0
    /\ Len(request_counts[Ip2]) = MaxOther

\* the window of ip holds a timestamp, and its oldest one is 60 s old or more
OldestExpired(ip) ==
    /\ Len(request_counts[ip]) > 0
    /\ now - request_counts[ip][1] >= RATE_LIMIT_WINDOW

Fails(s) ==
    /\ req[s].pc # "done" /\ req'[s].pc = "done"
    /\ req'[s].ip # ""
    /\ req'[s].response.status \in {400, 401, 413, 500}

\* the timestamps of a list that are younger than the window now
YoungOf(timestamps) ==
    LET Younger(t) == now - t < RATE_LIMIT_WINDOW
    IN  SelectSeq(timestamps, Younger)

\* the admissions of ip younger than the window now
YoungAdmissions(ip) == YoungOf(admitted[ip])

\* every admission of ip so far belongs to a request that failed: none of its
\* requests was answered 200 and none is still being handled
OnlyFailures(ip) ==
    /\ ip \notin served
    /\ \A s \in Slots : req[s].ip = ip => req[s].pc \in {"idle", "done"}

\* C14: a request takes its rate-limit slot before authorization and
\* validation: a request that fails with 401, 400, 413 or 500 was admitted,
\* and its timestamp stays in the identity's window; after 20 such failing
\* requests of an identity within 60 s its next request is answered 429,
\* whatever credential and payload it carries.
C14_FailuresTakeSlots ==
    [][\A s \in Slots :
          LET ip == req'[s].ip IN
          /\ Fails(s) =>
                 /\ req'[s].rl = "admitted"
                 /\ IF Enters(s)
                    THEN request_counts'[ip] = Append(YoungerStored(ip), now)
                    ELSE request_counts' = request_counts
                 /\ YoungOf(request_counts'[ip]) = YoungOf(admitted'[ip])
          /\ (/\ Checked(s)
              /\ OnlyFailures(ip)
              /\ Len(YoungAdmissions(ip)) >= RATE_LIMIT_REQUESTS)
                 => req'[s].response.status = 429]_vars

\* 20 requests of the first identity failed; its next request, with the
\* right key and one valid file, is answered 429
C14_Witness ==
    LET r == req[1] IN
    /\ r.pc = "done" /\ r.ip = Ip1 /\ r.response.status = 429
    /\ Image(r) /\ CredentialMatches(r)
    /\ Len(Submitted(r)) = 1
    /\ AllRulesPass(Submitted(r), r.quality)
    /\ Ip1 \notin served
    /\ Len(YoungAdmissions(Ip1)) = RATE_LIMIT_REQUESTS
    /\ Len(request_counts[Ip1]) = RATE_LIMIT_REQUESTS

====
